---- MODULE Spec2Model ----
(***************************************************************************)
(* A model of track2text.py: the adaptive downsampler (downsample,         *)
(* sample_points), the address picks (pick_road, pick_locality,            *)
(* pick_ortsteil) and the narrative loop of build_description.             *)
(*                                                                         *)
(* Points lie on one meridian, lat counted in steps of 1/6371 radian, so   *)
(* that haversine_m is exactly 1000 metres * |lat difference|.             *)
(* The float min_dist is the exact rational n * (3/2)^k, saturating to an  *)
(* infinity after MaxGrow multiplications as the float does at its range.  *)
(***************************************************************************)
EXTENDS Integers, Sequences, FiniteSets, TLC

VARIABLES
    pc,                 \* position of the running function
    points,             \* the track handed to sample_points / build_description
    target_max,         \* the cap (TRACK2TEXT_MAX_SAMPLES)
    min_dist,           \* sample_points' spacing threshold
    sampled,            \* sample_points' result so far
    address,            \* the address of the latest successful primary lookup
    road,               \* pick_road(address)
    locality,           \* pick_locality(address)
    ortsteil,           \* pick_ortsteil(address)
    section_m,          \* section_km * 1000.0
    locality_zoom,      \* TRACK2TEXT_LOCALITY_ZOOM
    include_start_goal, \* TRACK2TEXT_INCLUDE_START_GOAL == "1"
    idx,                \* index of the next sampled point (0-based, as in the code)
    lines,              \* the narrative built so far
    last_road,
    last_locality,
    last_ortsteil,
    cumulative_m,
    next_section_m,
    lookups,            \* the answers reverse_geocode gave, one per processed point
    loc_lookups,        \* the answers reverse_geocode_locality gave, in call order
    calls,              \* the sleeps and the geocoder requests, in program order
    summary,            \* a FieldSummary object
    unit_in,            \* the unit its field is observed with
    observed,           \* the values handed to add_value, in call order
    rendered,           \* what format_value returned
    messages,           \* the messages of the FIT file
    msg_pos,            \* how many of them the loop has processed
    record_temps,
    session_values,
    message_counts,
    full_summary,
    summary_data

vars == <<pc, points, target_max, min_dist, sampled, address, road, locality,
          ortsteil, section_m, locality_zoom, include_start_goal, idx, lines,
          last_road, last_locality, last_ortsteil, cumulative_m,
          next_section_m, lookups, loc_lookups, calls, summary, unit_in,
          observed, rendered, messages, msg_pos, record_temps,
          session_values, message_counts, full_summary, summary_data>>

(***************************************************************************)
(* Bounds of the model.                                                    *)
(***************************************************************************)
MaxPts == 4
MaxSamples == 3
MaxCoord == 2
MaxGrow == 9
MaxKeys == 2
MaxObs == 6
MaxMsgs == 2

(***************************************************************************)
(* Values.                                                                 *)
(***************************************************************************)
\* Python's None, as a pick result or a last-known value.
None == "<None>"
\* Marks a key that is not in the address dict.
Absent == "<absent>"

\* haversine_m's Earth radius, in metres.
r == 6371000

\* A point of the meridian lon = 0, its latitude i / 6371 radians.
Point(i) == [lat |-> i, lon |-> 0]

Abs(x) == IF x < 0 THEN -x ELSE x

RECURSIVE Pow(_, _)
Pow(b, e) == IF e = 0 THEN 1 ELSE b * Pow(b, e - 1)

\* On one meridian s is sin(dlat / 2) ** 2 and the result r * |dlat|.
haversine_m(a, b) == (r * Abs(b.lat - a.lat)) \div 6371

(***************************************************************************)
(* The spacing threshold: n * (3/2)^k, or an infinity of n's sign.         *)
(***************************************************************************)
MinDist(n) == [n |-> n, k |-> 0, inf |-> FALSE]

\* haversine_m(last, p) >= min_dist_m
DistGE(d, md) ==
    IF md.inf THEN md.n < 0
    ELSE d * Pow(2, md.k) >= md.n * Pow(3, md.k)

\* A mutant of Times15: the threshold is not grown.
Times15Stuck(md) == md

\* min_dist *= 1.5
Times15(md) ==
    IF md.n = 0 \/ md.inf THEN md
    ELSE IF md.k = MaxGrow THEN [md EXCEPT !.inf = TRUE]
    ELSE [md EXCEPT !.k = @ + 1]

(***************************************************************************)
(* downsample                                                              *)
(***************************************************************************)
\* A mutant of ScanKeep: each point is compared with the one before it.
RECURSIVE ScanKeepPrevious(_, _, _, _, _)
ScanKeepPrevious(pts, i, keep, last, md) ==
    IF i > Len(pts) THEN keep
    ELSE IF DistGE(haversine_m(pts[i - 1], pts[i]), md)
         THEN ScanKeepPrevious(pts, i + 1, Append(keep, pts[i]), pts[i], md)
         ELSE ScanKeepPrevious(pts, i + 1, keep, last, md)

RECURSIVE ScanKeep(_, _, _, _, _)
ScanKeep(pts, i, keep, last, md) ==
    IF i > Len(pts) THEN keep
    ELSE IF DistGE(haversine_m(last, pts[i]), md)
         THEN ScanKeep(pts, i + 1, Append(keep, pts[i]), pts[i], md)
         ELSE ScanKeep(pts, i + 1, keep, last, md)

\* A mutant of downsample: the final point is not force-appended.
downsample_no_force(pts, md) ==
    IF pts = <<>> THEN <<>>
    ELSE ScanKeep(pts, 2, <<pts[1]>>, pts[1], md)

downsample(pts, md) ==
    IF pts = <<>> THEN <<>>
    ELSE LET keep == ScanKeep(pts, 2, <<pts[1]>>, pts[1], md)
         IN  IF keep[Len(keep)] # pts[Len(pts)]
             THEN Append(keep, pts[Len(pts)])
             ELSE keep

(***************************************************************************)
(* The picks.                                                              *)
(***************************************************************************)
ROAD_KEYS == <<"road", "pedestrian", "cycleway", "path", "footway", "steps",
               "track", "bridleway">>

LOCALITY_KEYS == <<"city", "town", "village", "suburb", "hamlet",
                   "municipality">>

ORTSTEIL_KEYS == <<"neighbourhood", "quarter", "locality", "borough",
                   "city_district", "district", "municipality",
                   "isolated_dwelling">>

Range(s) == {s[i] : i \in 1..Len(s)}

AddressKeys == Range(ROAD_KEYS) \cup Range(LOCALITY_KEYS) \cup Range(ORTSTEIL_KEYS)

\* for key in keys: if key in address: return address[key]; return None
RECURSIVE FirstPresent(_, _, _)
FirstPresent(keys, i, addr) ==
    IF i > Len(keys) THEN None
    ELSE IF addr[keys[i]] # Absent THEN addr[keys[i]]
    ELSE FirstPresent(keys, i + 1, addr)

pick_road(addr) == FirstPresent(ROAD_KEYS, 1, addr)

\* A mutant of pick_locality: town is looked up before city.
pick_locality_town_first(addr) ==
    FirstPresent(<<"town", "city", "village", "suburb", "hamlet",
                   "municipality">>, 1, addr)

pick_locality(addr) == FirstPresent(LOCALITY_KEYS, 1, addr)

pick_ortsteil(addr) == FirstPresent(ORTSTEIL_KEYS, 1, addr)

EmptyAddress == [k \in AddressKeys |-> Absent]

(***************************************************************************)
(* FieldSummary                                                            *)
(***************************************************************************)
\* Python's truth value of an Optional[str].
Truthy(v) == v # None /\ v # ""

Shown(v) == IF Truthy(v) THEN v ELSE None

\* a or b
OrElse(a, b) == IF Truthy(a) THEN a ELSE b

\* An Optional value that is not a string: None, or the value v.
Unset == [some |-> FALSE, v |-> 0]

Some(v) == [some |-> TRUE, v |-> v]

\* The values of a field: an int, or any other object through its str().
Numeric(n) == [num |-> TRUE, n |-> n, s |-> ""]

Text(s) == [num |-> FALSE, n |-> 0, s |-> s]

\* The texts of the model in sorted() order.
Alphabet == <<"a", "b", "c", "d", "e", "f">>

\* The object after construction.
FieldSummary ==
    [count |-> 0, numeric_count |-> 0, total |-> 0, min_value |-> Unset,
     max_value |-> Unset, last_value |-> None, unit |-> None,
     unique_values |-> [some |-> FALSE, v |-> {}]]

add_value(self, value, unit) ==
    LET s1 == [self EXCEPT !.count = @ + 1,
                           !.unit = IF Truthy(unit) /\ ~Truthy(@) THEN unit
                                    ELSE @]
    IN  IF value.num
        THEN [s1 EXCEPT
                !.numeric_count = @ + 1,
                !.total = @ + value.n,
                !.min_value = IF ~@.some \/ value.n < @.v THEN Some(value.n)
                              ELSE @,
                !.max_value = IF ~@.some \/ value.n > @.v THEN Some(value.n)
                              ELSE @,
                !.last_value = ToString(value.n)]
        ELSE [s1 EXCEPT
                !.unique_values =
                    [some |-> TRUE,
                     v |-> IF Cardinality(@.v) < 5 THEN @.v \cup {value.s}
                           ELSE @.v],
                !.last_value = value.s]

\* What format_value returns: the texts it joins with ", ", or for two or
\* more numbers the minimum, the maximum and the average as total / n; then
\* the ellipsis and the unit, when it appends them.
Rendering(kind, values, fs, ellipsis, unit) ==
    [kind |-> kind, values |-> values,
     min |-> IF kind = "stats" THEN fs.min_value.v ELSE 0,
     max |-> IF kind = "stats" THEN fs.max_value.v ELSE 0,
     total |-> IF kind = "stats" THEN fs.total ELSE 0,
     n |-> IF kind = "stats" THEN fs.numeric_count ELSE 0,
     ellipsis |-> ellipsis, unit |-> unit]

NotRendered == Rendering("none", <<>>, FieldSummary, FALSE, None)

\* sorted(unique_values)
Sorted(S) == SelectSeq(Alphabet, LAMBDA x : x \in S)

format_value(self) ==
    IF self.numeric_count > 1
    THEN Rendering("stats", <<>>, self, FALSE, Shown(self.unit))
    ELSE IF self.numeric_count = 1
    THEN Rendering("text", <<self.last_value>>, self, FALSE, Shown(self.unit))
    ELSE IF self.unique_values.some /\ self.unique_values.v # {}
    THEN Rendering("text", Sorted(self.unique_values.v), self,
                   ~(self.count <= Cardinality(self.unique_values.v)), None)
    ELSE Rendering("text", <<IF Truthy(self.last_value) THEN self.last_value
                             ELSE "">>, self, FALSE, None)

(***************************************************************************)
(* parse_fit_points_and_summary: the values it works on.                   *)
(***************************************************************************)
\* The session fields the loop copies into session_values.
SESSION_FIELDS ==
    <<"total_timer_time", "total_elapsed_time", "total_ascent",
      "total_descent", "max_grade", "max_altitude", "max_elevation",
      "avg_power", "total_distance", "avg_speed", "max_speed",
      "avg_heart_rate", "max_heart_rate", "avg_cadence">>

\* The fields the messages of the model carry; a field is Unset when the
\* message has none of that name or its value is None.
FitFields ==
    {"temperature", "total_ascent", "min_temperature", "max_temperature",
     "avg_temperature"}

MsgNames == {"record", "session"}

\* field.units
UnitOf(f) == IF f = "total_ascent" THEN "m" ELSE "C"

Message(name, temperature, ascent, lo, hi, av) ==
    [name |-> name,
     fields |-> [f \in FitFields |->
                    CASE f = "temperature" -> temperature
                      [] f = "total_ascent" -> ascent
                      [] f = "min_temperature" -> lo
                      [] f = "max_temperature" -> hi
                      [] f = "avg_temperature" -> av]]

\* An entry of session_values, a (value, units) tuple, or none for the key.
NoEntry == [some |-> FALSE, value |-> 0, unit |-> None]

Entry(value, unit) == [some |-> TRUE, value |-> value, unit |-> unit]

NoSessionValues == [f \in Range(SESSION_FIELDS) |-> NoEntry]

NoCounts == [m \in MsgNames |-> 0]

NoSummary == [m \in MsgNames |-> [f \in FitFields |-> FieldSummary]]

\* A number of the temperature headline as num / den, or the "-" put in the
\* place of a missing one.
Dash == [some |-> FALSE, num |-> 0, den |-> 1]

Part(num, den) == [some |-> TRUE, num |-> num, den |-> den]

NoTemperature == [some |-> FALSE, min |-> Dash, max |-> Dash, avg |-> Dash]

\* summary_data, of which the model keeps the keys its fields can fill.
NoData == [ascent |-> NoEntry, temperature_min_max_avg |-> NoTemperature]

\* session_values.get(name)
SessionGet(sv, name) ==
    IF name \in Range(SESSION_FIELDS) THEN sv[name] ELSE NoEntry

MinOf(ts) == CHOOSE t \in Range(ts) : \A u \in Range(ts) : t <= u

MaxOf(ts) == CHOOSE t \in Range(ts) : \A u \in Range(ts) : t >= u

RECURSIVE Sum(_)
Sum(ts) == IF ts = <<>> THEN 0 ELSE ts[1] + Sum(Tail(ts))

\* The temperature headline.
TemperatureHeadline(sv, temps) ==
    IF temps # <<>>
    THEN [some |-> TRUE, min |-> Part(MinOf(temps), 1),
          max |-> Part(MaxOf(temps), 1), avg |-> Part(Sum(temps), Len(temps))]
    ELSE LET min_temp == SessionGet(sv, "min_temperature")
             max_temp == SessionGet(sv, "max_temperature")
             avg_temp == SessionGet(sv, "avg_temperature")
             part(e) == IF e.some THEN Part(e.value, 1) ELSE Dash
         IN  IF min_temp.some \/ max_temp.some \/ avg_temp.some
             THEN [some |-> TRUE, min |-> part(min_temp),
                   max |-> part(max_temp), avg |-> part(avg_temp)]
             ELSE NoTemperature

(***************************************************************************)
(* Inputs.                                                                 *)
(***************************************************************************)
\* Record messages with and without a temperature, session messages with
\* and without an ascent and each of the three temperatures.
FitMessages ==
    {Message("record", t, Unset, Unset, Unset, Unset) :
        t \in {Unset, Some(10), Some(20)}} \cup
    {Message("session", Unset, a, lo, hi, av) :
        a \in {Unset, Some(100)}, lo \in {Unset, Some(5)},
        hi \in {Unset, Some(25)}, av \in {Unset, Some(15)}}

FitFiles == UNION {[1..n -> FitMessages] : n \in 0..MaxMsgs}

\* What a field is observed as: two numbers, six texts.
FSValues ==
    {Numeric(10), Numeric(20)} \cup {Text(Alphabet[i]) : i \in 1..Len(Alphabet)}

FSUnits == {None, "m"}

Coords == 0..MaxCoord

Tracks == UNION {[1..n -> {Point(i) : i \in Coords}] : n \in 1..MaxPts}

\* target_max values: caps the track cannot meet, a tight cap, the default.
Caps == {0, 1, 2, 200}

\* TRACK2TEXT_MIN_DIST_M values: negative, zero, the default, a wide one.
MinDists == {-50, 0, 50, 1500}

PickValues == {"", "a", "b"}

RECURSIVE KeySets(_)
KeySets(n) ==
    IF n = 0 THEN {{}}
    ELSE LET p == KeySets(n - 1)
         IN  p \cup {s \cup {k} : s \in p, k \in AddressKeys}

PickAddresses ==
    UNION {{[k \in AddressKeys |-> IF k \in S THEN f[k] ELSE Absent] :
                f \in [S -> PickValues]} : S \in KeySets(MaxKeys)}

\* The variables a specification does not use keep these values.
IdleDS ==
    /\ points = <<>> /\ target_max = 0 /\ min_dist = MinDist(0)
    /\ sampled = <<>>

IdlePick ==
    /\ address = EmptyAddress
    /\ road = None /\ locality = None /\ ortsteil = None

IdleBD ==
    /\ section_m = 0 /\ locality_zoom = 0 /\ include_start_goal = FALSE
    /\ idx = 0 /\ lines = <<>>
    /\ last_road = None /\ last_locality = None /\ last_ortsteil = None
    /\ cumulative_m = 0 /\ next_section_m = [fin |-> FALSE, m |-> 0]
    /\ lookups = <<>> /\ loc_lookups = <<>> /\ calls = <<>>

IdleFS ==
    /\ summary = FieldSummary /\ unit_in = None
    /\ observed = <<>> /\ rendered = NotRendered

IdleFit ==
    /\ messages = <<>> /\ msg_pos = 0 /\ record_temps = <<>>
    /\ session_values = NoSessionValues
    /\ message_counts = NoCounts
    /\ full_summary = NoSummary
    /\ summary_data = NoData

pickVars == <<address, road, locality, ortsteil>>

fitVars == <<messages, msg_pos, record_temps, session_values, message_counts,
             full_summary, summary_data>>

fsVars == <<summary, unit_in, observed, rendered>>

bdVars == <<section_m, locality_zoom, include_start_goal, idx, lines,
            last_road, last_locality, last_ortsteil, cumulative_m,
            next_section_m, lookups, loc_lookups, calls>>

(***************************************************************************)
(* sample_points, one action per statement of its loop.                    *)
(***************************************************************************)
InitDS ==
    /\ pc = "call"
    /\ points \in Tracks
    /\ target_max \in Caps
    /\ \E n \in MinDists : min_dist = MinDist(n)
    /\ sampled = <<>>
    /\ IdlePick
    /\ IdleBD
    /\ IdleFS
    /\ IdleFit

\* sampled = downsample(points, min_dist)
SPFirstScan ==
    /\ pc = "call"
    /\ sampled' = downsample(points, min_dist)
    /\ pc' = "while"
    /\ UNCHANGED <<points, target_max, min_dist, pickVars, bdVars, fsVars, fitVars>>

\* while len(sampled) > target_max: min_dist *= 1.5
SPGrow ==
    /\ pc = "while"
    /\ Len(sampled) > target_max
    /\ min_dist' = Times15(min_dist)
    /\ pc' = "rescan"
    /\ UNCHANGED <<points, target_max, sampled, pickVars, bdVars, fsVars, fitVars>>

\* sampled = downsample(points, min_dist), in the loop
SPRescan ==
    /\ pc = "rescan"
    /\ sampled' = downsample(points, min_dist)
    /\ pc' = "while"
    /\ UNCHANGED <<points, target_max, min_dist, pickVars, bdVars, fsVars, fitVars>>

\* the loop's exit: return sampled
SPReturn ==
    /\ pc = "while"
    /\ ~(Len(sampled) > target_max)
    /\ pc' = "done"
    /\ UNCHANGED <<points, target_max, min_dist, sampled, pickVars, bdVars, fsVars, fitVars>>

NextDS == SPFirstScan \/ SPGrow \/ SPRescan \/ SPReturn

SpecDS == InitDS /\ [][NextDS]_vars

\* The interpreter runs the next statement: the loop is never left waiting.
FairSpecDS == SpecDS /\ WF_vars(NextDS)

(***************************************************************************)
(* The picks applied to one address.                                       *)
(***************************************************************************)
InitPick ==
    /\ pc = "call"
    /\ address \in PickAddresses
    /\ road = None /\ locality = None /\ ortsteil = None
    /\ IdleDS
    /\ IdleBD
    /\ IdleFS
    /\ IdleFit

PickAll ==
    /\ pc = "call"
    /\ road' = pick_road(address)
    /\ locality' = pick_locality(address)
    /\ ortsteil' = pick_ortsteil(address)
    /\ pc' = "done"
    /\ UNCHANGED <<address, points, target_max, min_dist, sampled, bdVars, fsVars, fitVars>>

NextPick == PickAll

SpecPick == InitPick /\ [][NextPick]_vars

(***************************************************************************)
(* A FieldSummary fed with observations, then formatted.                   *)
(***************************************************************************)
InitFS ==
    /\ pc = "call"
    /\ summary = FieldSummary
    /\ unit_in \in FSUnits
    /\ observed = <<>>
    /\ rendered = NotRendered
    /\ IdleDS
    /\ IdlePick
    /\ IdleBD
    /\ IdleFit

\* field_summary.add_value(field.value, field.units)
FSAdd ==
    /\ pc = "call"
    /\ Len(observed) < MaxObs
    /\ \E value \in FSValues :
          /\ summary' = add_value(summary, value, unit_in)
          /\ observed' = Append(observed, value)
    /\ UNCHANGED <<pc, unit_in, rendered, points, target_max, min_dist,
                   sampled, pickVars, bdVars, fitVars>>

\* value = field_summary.format_value()
FSFormat ==
    /\ pc = "call"
    /\ rendered' = format_value(summary)
    /\ pc' = "done"
    /\ UNCHANGED <<summary, unit_in, observed, points, target_max, min_dist,
                   sampled, pickVars, bdVars, fitVars>>

NextFS == FSAdd \/ FSFormat

SpecFS == InitFS /\ [][NextFS]_vars

(***************************************************************************)
(* parse_fit_points_and_summary: one action per message, then the summary. *)
(***************************************************************************)
InitFit ==
    /\ pc = "read"
    /\ messages \in FitFiles
    /\ msg_pos = 0
    /\ record_temps = <<>>
    /\ session_values = NoSessionValues
    /\ message_counts = NoCounts
    /\ full_summary = NoSummary
    /\ summary_data = NoData
    /\ IdleDS
    /\ IdlePick
    /\ IdleBD
    /\ IdleFS

\* The body of `for message in fitfile.get_messages()`.
FitMessage ==
    /\ pc = "read"
    /\ msg_pos < Len(messages)
    /\ LET message == messages[msg_pos + 1]
           field_map == message.fields
       IN  /\ message_counts' = [message_counts EXCEPT ![message.name] = @ + 1]
           /\ record_temps' =
                 IF message.name = "record" /\ field_map["temperature"].some
                 THEN Append(record_temps, field_map["temperature"].v)
                 ELSE record_temps
           /\ session_values' =
                 IF message.name = "session"
                 THEN [f \in Range(SESSION_FIELDS) |->
                          IF f \in FitFields /\ field_map[f].some
                          THEN Entry(field_map[f].v, UnitOf(f))
                          ELSE session_values[f]]
                 ELSE session_values
           /\ full_summary' =
                 [full_summary EXCEPT ![message.name] =
                     [f \in FitFields |->
                         IF field_map[f].some
                         THEN add_value(@[f], Numeric(field_map[f].v), UnitOf(f))
                         ELSE @[f]]]
    /\ msg_pos' = msg_pos + 1
    /\ UNCHANGED <<pc, messages, summary_data, points, target_max, min_dist,
                   sampled, pickVars, bdVars, fsVars>>

\* After the loop: the headline values, and return.
FitSummarize ==
    /\ pc = "read"
    /\ msg_pos = Len(messages)
    /\ summary_data' =
          [ascent |->
              LET ascent == SessionGet(session_values, "total_ascent")
              IN  IF ascent.some
                  THEN Entry(ascent.value, OrElse(ascent.unit, "m"))
                  ELSE NoEntry,
           temperature_min_max_avg |->
              TemperatureHeadline(session_values, record_temps)]
    /\ pc' = "done"
    /\ UNCHANGED <<messages, msg_pos, record_temps, session_values,
                   message_counts, full_summary, points, target_max, min_dist,
                   sampled, pickVars, bdVars, fsVars>>

NextFit == FitMessage \/ FitSummarize

SpecFit == InitFit /\ [][NextFit]_vars

(***************************************************************************)
(* build_description.                                                      *)
(***************************************************************************)
\* sample_points as build_description calls it: the loop run to its exit.
RECURSIVE sample_loop(_, _, _, _)
sample_loop(pts, cap, md, s) ==
    IF Len(s) > cap
    THEN sample_loop(pts, cap, Times15(md), downsample(pts, Times15(md)))
    ELSE s

sample_points(pts, cap, md) == sample_loop(pts, cap, md, downsample(pts, md))

\* next_section_m: a float, infinite when the section length is not positive.
Boundary(m) == [fin |-> TRUE, m |-> m]

Infinite == [fin |-> FALSE, m |-> 0]

\* A mutant of ReachedBoundary: the boundary itself is not yet a crossing.
ReachedBoundaryStrict(cum, b) == b.fin /\ cum > b.m

\* cumulative_m >= next_section_m
ReachedBoundary(cum, b) == b.fin /\ cum >= b.m

\* A mutant of RoadChanged: no change is seen while no road is known.
RoadChangedKnown(rd, last) == Truthy(rd) /\ Truthy(last) /\ rd # last

\* A mutant of RoadChanged: the last-known road is not compared.
RoadChangedAlways(rd, last) == Truthy(rd)

\* road and road != last_road
RoadChanged(rd, last) == Truthy(rd) /\ rd # last

\* A mutant of Differs: the last-known value is not compared.
DiffersAlways(v, last) == Truthy(v)

\* locality and locality != last_locality (and the same for ortsteil)
Differs(v, last) == Truthy(v) /\ v # last

\* A line of the narrative: its kind and the values it renders (None: not
\* rendered; km is -1 on lines that carry no km marker).
Line(type, rd, loc, ort, km) ==
    [type |-> type, road |-> rd, locality |-> loc, ortsteil |-> ort, km |-> km]

NoteLine == Line("note", None, None, None, -1)

\* "- Section: from km N", then the place and the district that are set
SectionLine(km, loc, ort) == Line("section", None, Shown(loc), Shown(ort), km)

StartLine(rd, loc, ort) == Line("start", Shown(rd), Shown(loc), Shown(ort), -1)

\* "- Road change: <road>" and the location bits collected for it
RoadLine(rd, locbit, ortbit) == Line("road", rd, locbit, ortbit, -1)

\* A mutant of FinishLine: the parenthetical is left out.
FinishLineBare(rd, loc, ort) == Line("finish", Shown(rd), None, None, -1)

FinishLine(rd, loc, ort) == Line("finish", Shown(rd), Shown(loc), Shown(ort), -1)

\* A mutant of KmMarker: the label is taken after the boundary advanced.
KmMarkerAdvanced(b) == (b.m + section_m) \div 1000

\* int(next_section_m / 1000.0)
KmMarker(b) == b.m \div 1000

\* The answers of the geocoders: a failure (an exception), or an address.
Failure == [call |-> TRUE, ok |-> FALSE, address |-> EmptyAddress]

Answer(addr) == [call |-> TRUE, ok |-> TRUE, address |-> addr]

\* No request was made.
NoCall == [call |-> FALSE, ok |-> FALSE, address |-> EmptyAddress]

Address3(rd, city, nb) ==
    [k \in AddressKeys |->
        CASE k = "road" -> rd
          [] k = "city" -> city
          [] k = "neighbourhood" -> nb
          [] OTHER -> Absent]

\* What reverse_geocode may answer for a point.
PrimaryResults ==
    {Failure} \cup
    {Answer(Address3(rd, city, nb)) :
        rd \in {Absent, "A", "B"}, city \in {Absent, "X", "Y"},
        nb \in {Absent, "P"}}

\* What reverse_geocode_locality may answer for a point.
LocalityResults ==
    {Failure, Answer(EmptyAddress), Answer(Address3(Absent, "Y", Absent)),
     Answer(Address3(Absent, Absent, "Q"))}

\* Tracks that run north from the origin, and the empty track.
BDTracks ==
    {<<>>} \cup
    {t \in Tracks :
        /\ Len(t) <= MaxSamples
        /\ t[1] = Point(0)
        /\ \A i \in 1..(Len(t) - 1) : t[i + 1].lat > t[i].lat}

\* TRACK2TEXT_MAX_SAMPLES: a tight cap and the default.
BDCaps == {2, 200}

\* section_km * 1000.0: sections switched off, 250 m, 1 km, 1.5 km, the
\* default.
SectionLens == {0, 250, 1000, 1500, 3000}

\* TRACK2TEXT_LOCALITY_ZOOM: refinement switched off, the default.
LocalityZooms == {0, 12}

InitBD ==
    /\ pc = "loop"
    /\ points \in BDTracks
    /\ target_max \in BDCaps
    /\ min_dist = MinDist(50)
    /\ sampled = sample_points(points, target_max, min_dist)
    /\ section_m \in SectionLens
    /\ locality_zoom \in LocalityZooms
    /\ include_start_goal \in BOOLEAN
    /\ lines = <<>>
    /\ last_road = None /\ last_locality = None /\ last_ortsteil = None
    /\ cumulative_m = 0
    /\ next_section_m = IF section_m > 0 THEN Boundary(section_m) ELSE Infinite
    /\ idx = 0
    /\ IdlePick
    /\ IdleFS
    /\ IdleFit
    /\ lookups = <<>> /\ loc_lookups = <<>> /\ calls = <<>>

bdConfig == <<points, target_max, min_dist, sampled, section_m, locality_zoom,
              include_start_goal>>

\* The distance added before the lookup of sampled[idx].
Advance ==
    IF idx > 0 THEN haversine_m(sampled[idx], sampled[idx + 1]) ELSE 0

\* time.sleep(1.0) before every point but the first, then reverse_geocode.
PrimaryCalls ==
    IF idx > 0 THEN <<"sleep", "reverse_geocode">> ELSE <<"reverse_geocode">>

\* A mutant of RefinementCalls: the refinement is requested at once.
RefinementCallsNoSleep(ref) ==
    IF ref.call THEN <<"reverse_geocode_locality">> ELSE <<>>

\* time.sleep(1.0), then reverse_geocode_locality, when a refinement is made.
RefinementCalls(ref) ==
    IF ref.call THEN <<"sleep", "reverse_geocode_locality">> ELSE <<>>

\* A mutant of LookupFailed: the failed point's distance is not counted.
LookupFailedNoAdvance(res) ==
    /\ lines' = Append(lines, NoteLine)
    /\ lookups' = Append(lookups, res)
    /\ calls' = calls \o PrimaryCalls
    /\ idx' = idx + 1
    /\ UNCHANGED <<pc, bdConfig, fsVars, fitVars, pickVars, last_road, last_locality,
                   last_ortsteil, next_section_m, loc_lookups, cumulative_m>>

\* The loop body from the failed reverse_geocode on: the note, and continue.
LookupFailed(res) ==
    /\ cumulative_m' = cumulative_m + Advance
    /\ lines' = Append(lines, NoteLine)
    /\ lookups' = Append(lookups, res)
    /\ calls' = calls \o PrimaryCalls
    /\ idx' = idx + 1
    /\ UNCHANGED <<pc, bdConfig, fsVars, fitVars, pickVars, last_road, last_locality,
                   last_ortsteil, next_section_m, loc_lookups>>

\* A mutant of Refined: a refinement that raised loses the value it refines.
RefinedLosing(ref, picked, old) ==
    IF ref.call /\ ~ref.ok THEN None
    ELSE IF ref.ok THEN OrElse(picked, old) ELSE old

\* A refinement lookup's answer folded into a value: pick(...) or old, and
\* old alone when the lookup raised or was not made.
Refined(ref, picked, old) == IF ref.ok THEN OrElse(picked, old) ELSE old

\* The loop body after a successful reverse_geocode that returned addr; sref
\* and tref are the answers of the section's and the start's refinement.
LookupSucceeded(res, sref, tref) ==
    LET addr == res.address
        cum == cumulative_m + Advance
        rd == pick_road(addr)
        loc == pick_locality(addr)
        ort == pick_ortsteil(addr)
        \* the section block
        sect == ReachedBoundary(cum, next_section_m)
        section_locality == Refined(sref, pick_locality(sref.address), loc)
        section_ortsteil == Refined(sref, pick_ortsteil(sref.address), ort)
        lines1 == IF sect
                  THEN Append(lines, SectionLine(KmMarker(next_section_m),
                                                 section_locality,
                                                 section_ortsteil))
                  ELSE lines
        next1 == IF sect THEN Boundary(next_section_m.m + section_m)
                 ELSE next_section_m
        loc1 == IF sect THEN section_locality ELSE last_locality
        ort1 == IF sect THEN section_ortsteil ELSE last_ortsteil
        \* the idx == 0 block
        loc0 == IF Truthy(loc) THEN loc ELSE loc1
        ort0 == IF Truthy(ort) THEN ort ELSE ort1
        locS == IF include_start_goal
                THEN Refined(tref, pick_locality(tref.address), loc0) ELSE loc0
        ortS == IF include_start_goal
                THEN Refined(tref, pick_ortsteil(tref.address), ort0) ELSE ort0
        \* the road change block
        change == RoadChanged(rd, last_road)
        locbit == Differs(loc, loc1)
        ortbit == Differs(ort, ort1)
    IN  /\ cumulative_m' = cum
        /\ address' = addr
        /\ road' = rd
        /\ locality' = loc
        /\ ortsteil' = ort
        /\ next_section_m' = next1
        /\ lookups' = Append(lookups, res)
        /\ loc_lookups' = loc_lookups \o (IF sref.call THEN <<sref>> ELSE <<>>)
                                      \o (IF tref.call THEN <<tref>> ELSE <<>>)
        /\ calls' = calls \o PrimaryCalls \o RefinementCalls(sref)
                           \o RefinementCalls(tref)
        /\ last_road' = IF Truthy(rd) THEN rd ELSE last_road
        /\ IF idx = 0
           THEN /\ last_locality' = locS
                /\ last_ortsteil' = ortS
                /\ lines' = IF include_start_goal
                            THEN Append(lines1, StartLine(rd, loc, ort))
                            ELSE lines1
           ELSE /\ last_locality' = IF change /\ locbit THEN loc ELSE loc1
                /\ last_ortsteil' = IF change /\ ortbit THEN ort ELSE ort1
                /\ lines' = IF change
                            THEN Append(lines1,
                                        RoadLine(rd,
                                                 IF locbit THEN loc ELSE None,
                                                 IF ortbit THEN ort ELSE None))
                            ELSE lines1
        /\ idx' = idx + 1
        /\ UNCHANGED <<pc, bdConfig, fsVars, fitVars>>

\* One iteration of `for idx, p in enumerate(sampled)`.
Step ==
    /\ pc = "loop"
    /\ idx < Len(sampled)
    /\ \E res \in PrimaryResults :
          IF ~res.ok THEN LookupFailed(res)
          ELSE LET cum == cumulative_m + Advance
                   sect == ReachedBoundary(cum, next_section_m)
                   srefs == IF sect /\ locality_zoom # 0
                            THEN LocalityResults ELSE {NoCall}
                   trefs == IF idx = 0 /\ include_start_goal /\ locality_zoom # 0
                            THEN LocalityResults ELSE {NoCall}
               IN  \E sref \in srefs, tref \in trefs :
                      LookupSucceeded(res, sref, tref)

\* A mutant of Finish: the finish line is appended for an empty sample too.
FinishUnguarded ==
    /\ pc = "loop"
    /\ idx = Len(sampled)
    /\ lines' = IF include_start_goal
                THEN Append(lines, FinishLine(last_road, last_locality,
                                              last_ortsteil))
                ELSE lines
    /\ pc' = "done"
    /\ UNCHANGED <<bdConfig, fsVars, fitVars, pickVars, idx, last_road, last_locality,
                   last_ortsteil, cumulative_m, next_section_m, lookups,
                   loc_lookups, calls>>

\* After the loop: the finish line, and return.
Finish ==
    /\ pc = "loop"
    /\ idx = Len(sampled)
    /\ lines' = IF include_start_goal /\ sampled # <<>>
                THEN Append(lines, FinishLine(last_road, last_locality,
                                              last_ortsteil))
                ELSE lines
    /\ pc' = "done"
    /\ UNCHANGED <<bdConfig, fsVars, fitVars, pickVars, idx, last_road, last_locality,
                   last_ortsteil, cumulative_m, next_section_m, lookups,
                   loc_lookups, calls>>

NextBD == Step \/ Finish

SpecBD == InitBD /\ [][NextBD]_vars

(***************************************************************************)
(* Properties of the downsampler.                                          *)
(***************************************************************************)
\* s is p with some elements left out, the rest in p's order.
SubseqOf(s, p) ==
    \E f \in [1..Len(s) -> 1..Len(p)] :
        /\ \A i \in 1..Len(s) : p[f[i]] = s[i]
        /\ \A i, j \in 1..Len(s) : i < j => f[i] < f[j]

\* C1: every output of downsample, and so what sample_points returns, is an
\* order-preserving subsequence of the input that starts with the input's
\* first point and ends with the input's last point.
C1_FirstLastSubsequence ==
    pc # "call" =>
        /\ sampled # <<>>
        /\ SubseqOf(sampled, points)
        /\ sampled[1] = points[1]
        /\ sampled[Len(sampled)] = points[Len(points)]

\* sample_points has returned after a rescan, and the last point of its result
\* is closer than the threshold to the point kept before it: the scan dropped
\* it and it was force-appended.
C1_Witness ==
    /\ pc = "done"
    /\ min_dist.k > 0
    /\ Len(sampled) >= 2
    /\ Len(sampled) < Len(points)
    /\ ~DistGE(haversine_m(sampled[Len(sampled) - 1], sampled[Len(sampled)]),
               min_dist)
    /\ sampled[Len(sampled)] = points[Len(points)]

\* C2: with a cap >= 2 and a positive initial spacing, sample_points returns,
\* and what it returns is no longer than the cap.
C2_ReturnsWithinCap ==
    (target_max >= 2 /\ min_dist.n > 0) =>
        <>(pc = "done" /\ Len(sampled) <= target_max)

\* sample_points returned within a cap >= 2 that the first scan exceeded.
C2_Witness ==
    /\ pc = "done"
    /\ target_max >= 2
    /\ min_dist.n > 0
    /\ min_dist.k > 0
    /\ Len(points) > target_max
    /\ Len(sampled) <= target_max

\* C3: sample_points terminates for every non-empty input, every cap and
\* every initial spacing.
C3_Terminates == <>(pc = "done")

(***************************************************************************)
(* Properties of the picks.                                                *)
(***************************************************************************)
RoadOrder == <<"road", "pedestrian", "cycleway", "path", "footway", "steps",
               "track", "bridleway">>

LocalityOrder == <<"city", "town", "village", "suburb", "hamlet",
                   "municipality">>

OrtsteilOrder == <<"neighbourhood", "quarter", "locality", "borough",
                   "city_district", "district", "municipality",
                   "isolated_dwelling">>

\* The value under the first key of order that addr holds, None without one.
Winner(order, addr) ==
    LET present == {i \in 1..Len(order) : addr[order[i]] # Absent}
    IN  IF present = {} THEN None
        ELSE addr[order[CHOOSE i \in present : \A j \in present : i <= j]]

\* C4: each pick returns the value under the first key of its priority list
\* that the address holds, None when it holds none of them; the value is that
\* of one key, and each pick reads the keys of its own list only.
C4_PicksFirstMatch ==
    pc = "done" =>
        /\ road = Winner(RoadOrder, address)
        /\ locality = Winner(LocalityOrder, address)
        /\ ortsteil = Winner(OrtsteilOrder, address)
        /\ road = None <=> \A k \in Range(RoadOrder) : address[k] = Absent
        /\ locality = None <=> \A k \in Range(LocalityOrder) : address[k] = Absent
        /\ ortsteil = None <=> \A k \in Range(OrtsteilOrder) : address[k] = Absent

\* An address without any road key that holds two locality keys with
\* different values: the locality is the value under the earlier key, city.
C4_Witness ==
    /\ pc = "done"
    /\ address["city"] # Absent
    /\ address["town"] # Absent
    /\ address["city"] # address["town"]
    /\ locality = address["city"]
    /\ road = None

(***************************************************************************)
(* Properties of build_description.                                        *)
(***************************************************************************)
\* The step taken is one loop iteration, for the sampled point of index idx.
Iterated == idx' = idx + 1

\* The primary lookup of the iteration just made raised / answered.
PrimaryFailed == Iterated /\ ~lookups'[idx'].ok

PrimaryAnswered == Iterated /\ lookups'[idx'].ok

\* The positions of the lines the step appended.
NewLines == (Len(lines) + 1)..Len(lines')

Emitted(type) == \E k \in NewLines : lines'[k].type = type

\* The great-circle distance from sample idx-1 to sample idx.
StepDistance ==
    IF idx > 0 THEN haversine_m(sampled[idx], sampled[idx + 1]) ELSE 0

\* C5: a failed primary lookup appends exactly one note line; the cumulative
\* distance still advances by the distance from the previous sample; the
\* last-known road, locality and district and the next section boundary stay
\* as they were, no other line is emitted, no refinement is requested, and
\* the loop goes on with the next sample.
C5_FailedLookupOnlyNotes ==
    [][PrimaryFailed =>
        /\ lines' = Append(lines, NoteLine)
        /\ cumulative_m' = cumulative_m + StepDistance
        /\ UNCHANGED <<last_road, last_locality, last_ortsteil,
                       next_section_m, loc_lookups>>
        /\ pc' = "loop"]_vars

\* The lookup of the second sample failed after the start had answered with a
\* road, and the third sample was processed after it.
C5_Witness ==
    /\ Len(lookups) = 3
    /\ lookups[1].ok /\ ~lookups[2].ok /\ lookups[3].ok
    /\ Len(lines) >= 2
    /\ lines[1].type = "start" /\ lines[1].road # None
    /\ lines[2].type = "note"
    /\ last_road # None
    /\ cumulative_m > 0

\* The length of the sampled route up to the sample of position i (1-based).
RECURSIVE RouteTo(_)
RouteTo(i) ==
    IF i <= 1 THEN 0
    ELSE RouteTo(i - 1) + haversine_m(sampled[i - 1], sampled[i])

\* Every primary lookup of the finished run answered with road R and city L
\* and no district, and every refinement lookup answered with city L and no
\* district.
AllAnswered(R, L) ==
    /\ \A i \in 1..Len(lookups) :
          /\ lookups[i].ok
          /\ lookups[i].address["road"] = R
          /\ lookups[i].address["city"] = L
          /\ lookups[i].address["neighbourhood"] = Absent
    /\ \A j \in 1..Len(loc_lookups) :
          /\ loc_lookups[j].ok
          /\ loc_lookups[j].address["city"] = L
          /\ loc_lookups[j].address["neighbourhood"] = Absent

\* C6: with start/finish enabled, every lookup answering the same road R and
\* locality L (no district) and the whole sampled route shorter than one
\* section, the narrative is exactly the Start line with R and L and the
\* Finish line with R and L, whatever the number of samples.
C6_SteadyTrackTwoLines ==
    \A R \in {"A", "B"}, L \in {"X", "Y"} :
        (/\ pc = "done"
         /\ include_start_goal
         /\ sampled # <<>>
         /\ AllAnswered(R, L)
         /\ (section_m <= 0 \/ cumulative_m < section_m))
        => lines = <<Line("start", R, L, None, -1),
                     Line("finish", R, L, None, -1)>>

\* A finished run over three samples, each answering road B and city Y, with
\* the start's refinement made and sections switched on.
C6_Witness ==
    /\ pc = "done"
    /\ include_start_goal
    /\ Len(sampled) = 3
    /\ section_m = 3000
    /\ cumulative_m = 2000
    /\ Len(loc_lookups) = 1
    /\ AllAnswered("B", "Y")
    /\ Len(lines) = 2

Types(ls) == [k \in 1..Len(ls) |-> ls[k].type]

\* The finished run had start/finish enabled, every lookup answered, the
\* route reached the first section boundary and not the second, and road and
\* city changed once, both at the sample of position j > 1.
OneCrossingOneChange(j) ==
    /\ pc = "done"
    /\ include_start_goal
    /\ j \in 2..Len(sampled)
    /\ \A i \in 1..Len(lookups) : lookups[i].ok
    /\ \A i \in 1..Len(loc_lookups) : loc_lookups[i].ok
    /\ section_m > 0
    /\ cumulative_m >= section_m
    /\ cumulative_m < 2 * section_m
    /\ \E R1, R2 \in {"A", "B"}, L1, L2 \in {"X", "Y"} :
          /\ R1 # R2 /\ L1 # L2
          /\ \A i \in 1..Len(lookups) :
                /\ lookups[i].address["road"] = (IF i < j THEN R1 ELSE R2)
                /\ lookups[i].address["city"] = (IF i < j THEN L1 ELSE L2)

\* The position of the first sample at which the route reached one section.
CrossingAt == CHOOSE c \in 1..Len(sampled) :
                 /\ RouteTo(c) >= section_m
                 /\ \A d \in 1..(c - 1) : RouteTo(d) < section_m

\* C7 as claimed: one crossing and one change of road and locality give
\* Start, Section marker, Road change, Finish, in that order.
C7_AsClaimed ==
    \A j \in 1..MaxSamples :
        OneCrossingOneChange(j) =>
            Types(lines) = <<"start", "section", "road", "finish">>

\* C7 amended: lines are appended in processing order. One crossing and one
\* change give Start, Section marker, Road change, Finish when the boundary
\* is reached at or before the sample where the road changes (at the same
\* sample the section marker precedes the road change), and Start, Road
\* change, Section marker, Finish when the road changes at an earlier sample.
C7_ProcessingOrder ==
    \A j \in 1..MaxSamples :
        OneCrossingOneChange(j) =>
            Types(lines) = IF CrossingAt <= j
                           THEN <<"start", "section", "road", "finish">>
                           ELSE <<"start", "road", "section", "finish">>

\* The boundary was reached at the very sample where road and city changed.
C7_Witness ==
    /\ OneCrossingOneChange(3)
    /\ CrossingAt = 3
    /\ Len(lines) = 4
    /\ lines[2].type = "section"
    /\ lines[3].type = "road"

\* The number of section markers among ls.
SectionCount(ls) == Cardinality({k \in 1..Len(ls) : ls[k].type = "section"})

\* C8: the next section boundary starts at one section length (infinite for
\* a section length <= 0) and is always one section length per marker emitted
\* beyond it, so it never decreases or resets; a step changes it only by
\* adding one section length, and does so exactly when it emits a section
\* marker, which happens exactly when the point's lookup answered and the
\* cumulative distance is >= the boundary; the marker carries
\* floor(boundary / 1000) of the boundary before the increase.
C8_BoundaryAdvances ==
    /\ [](next_section_m =
            IF section_m > 0
            THEN Boundary(section_m * (1 + SectionCount(lines)))
            ELSE Infinite)
    /\ [][/\ Emitted("section") <=>
                (PrimaryAnswered
                 /\ ReachedBoundary(cumulative_m', next_section_m))
          /\ Emitted("section") =>
                /\ \A k \in NewLines :
                      lines'[k].type = "section" =>
                          /\ k = Len(lines) + 1
                          /\ lines'[k].km * 1000 <= next_section_m.m
                          /\ next_section_m.m < (lines'[k].km + 1) * 1000
                /\ next_section_m' = Boundary(next_section_m.m + section_m)
          /\ ~Emitted("section") => next_section_m' = next_section_m]_vars

\* Two markers of a 1 km section were emitted, at km 1 and at km 2, and the
\* boundary stands at 3 km.
C8_Witness ==
    /\ section_m = 1000
    /\ SectionCount(lines) = 2
    /\ next_section_m = Boundary(3000)
    /\ \E a, b \in 1..Len(lines) :
          /\ a < b
          /\ lines[a].type = "section" /\ lines[a].km = 1
          /\ lines[b].type = "section" /\ lines[b].km = 2

\* C9: at an index > 0 whose lookup answered, a road change line is emitted
\* exactly when a road was extracted and differs from the last-known road,
\* and it names that road; an extracted road becomes the last-known road
\* whether or not the line was emitted, and without one it is unchanged.
C9_RoadChange ==
    [][(PrimaryAnswered /\ idx > 0) =>
        /\ Emitted("road") <=> (Truthy(road') /\ road' # last_road)
        /\ \A k \in NewLines :
              lines'[k].type = "road" =>
                  /\ k = Len(lines')
                  /\ lines'[k].road = road'
        /\ last_road' = IF Truthy(road') THEN road' ELSE last_road]_vars

\* The road changed from A to B at the second sample and was B again at the
\* third: one road change line, and B is the last-known road.
C9_Witness ==
    /\ Len(lookups) = 3
    /\ \A i \in 1..3 : lookups[i].ok
    /\ lookups[1].address["road"] = "A"
    /\ lookups[2].address["road"] = "B"
    /\ lookups[3].address["road"] = "B"
    /\ Cardinality({k \in 1..Len(lines) : lines[k].type = "road"}) = 1
    /\ last_road = "B"

\* The last-known value a road change of this step compares with: the one a
\* section marker of the same step resolved, else the one before the step.
KnownLocality ==
    IF Emitted("section")
    THEN lines'[Len(lines) + 1].locality ELSE last_locality

KnownOrtsteil ==
    IF Emitted("section")
    THEN lines'[Len(lines) + 1].ortsteil ELSE last_ortsteil

\* C10: a road change line lists the locality exactly when one was extracted
\* and differs from the last-known locality, and the district likewise, each
\* on its own; the last-known value is updated for the listed categories
\* only; and at an index > 0 with neither a road change nor a section marker
\* the last-known locality and district stay as they were.
C10_LocationBits ==
    [][(PrimaryAnswered /\ idx > 0) =>
        /\ Emitted("road") =>
              LET line == lines'[Len(lines')]
                  locbit == Truthy(locality') /\ locality' # KnownLocality
                  ortbit == Truthy(ortsteil') /\ ortsteil' # KnownOrtsteil
              IN  /\ line.locality = IF locbit THEN locality' ELSE None
                  /\ line.ortsteil = IF ortbit THEN ortsteil' ELSE None
                  /\ last_locality' = IF locbit THEN locality' ELSE KnownLocality
                  /\ last_ortsteil' = IF ortbit THEN ortsteil' ELSE KnownOrtsteil
        /\ (~Emitted("road") /\ ~Emitted("section")) =>
              UNCHANGED <<last_locality, last_ortsteil>>]_vars

\* A road change line that lists the district alone: a locality was
\* extracted too, and it is the last-known one.
C10_Witness ==
    /\ idx >= 2
    /\ lines # <<>>
    /\ lines[Len(lines)].type = "road"
    /\ lines[Len(lines)].locality = None
    /\ lines[Len(lines)].ortsteil = "P"
    /\ Truthy(locality)
    /\ locality = last_locality


(***************************************************************************)
(* Start and Finish.                                                       *)
(***************************************************************************)
\* The Start line of the narrative, when the first iteration has just ended.
StartEmitted ==
    /\ pc = "loop" /\ idx = 1
    /\ lines # <<>> /\ lines[Len(lines)].type = "start"

\* C11: the Start line is emitted after the coarse refinement and carries the
\* road and the refined locality and district, that is the values that are
\* last-known when it is emitted; it has no parenthetical only when neither
\* the fine lookup nor the refinement resolved a locality or a district.
C11_StartCarriesRefined ==
    StartEmitted =>
        LET start == lines[Len(lines)]
        IN  /\ start.road = Shown(road)
            /\ start.locality = Shown(last_locality)
            /\ start.ortsteil = Shown(last_ortsteil)
            /\ (start.locality = None /\ start.ortsteil = None) =>
                  (~Truthy(last_locality) /\ ~Truthy(last_ortsteil))

\* How many lines of the narrative are of the given kind.
Count(type) == Cardinality({i \in 1..Len(lines) : lines[i].type = type})

AllLookupsFailed == \A i \in 1..Len(lookups) : ~lookups[i].ok

\* C12: Finish is emitted exactly once, as the last line, exactly when
\* start/finish is enabled and at least one point was sampled; it carries the
\* road, locality and district that are last-known after the loop, and is a
\* bare Finish when they are all unset (as when every lookup failed); with
\* start/finish disabled neither Start nor Finish appears.
C12_FinishOnceLast ==
    /\ pc = "loop" => Count("finish") = 0
    /\ pc = "done" =>
          /\ Count("finish") =
                IF include_start_goal /\ Len(sampled) >= 1 THEN 1 ELSE 0
          /\ Count("finish") = 1 =>
                lines[Len(lines)] =
                    [type |-> "finish",
                     road |-> IF Truthy(last_road) THEN last_road ELSE None,
                     locality |-> IF Truthy(last_locality) THEN last_locality
                                  ELSE None,
                     ortsteil |-> IF Truthy(last_ortsteil) THEN last_ortsteil
                                  ELSE None,
                     km |-> -1]
          /\ (Count("finish") = 1 /\ AllLookupsFailed) =>
                lines[Len(lines)] = Line("finish", None, None, None, -1)
    /\ ~include_start_goal => (Count("start") = 0 /\ Count("finish") = 0)

\* Every lookup of a two-point run failed and the run ends with a bare Finish.
C12_Witness ==
    /\ pc = "done" /\ include_start_goal /\ Len(sampled) >= 2
    /\ AllLookupsFailed
    /\ lines[Len(lines)] = Line("finish", None, None, None, -1)

(***************************************************************************)
(* Pacing of the geocoder requests.                                        *)
(***************************************************************************)
IsRequest(c) == c \in {"reverse_geocode", "reverse_geocode_locality"}

Requests == {i \in 1..Len(calls) : IsRequest(calls[i])}

\* C13: every reverse-geocoding request other than the first of the run
\* (fine or coarse, for every sampled point, section refinement and start
\* refinement) is issued only after a 1-second sleep that follows the
\* previous request: no two requests without a sleep between them, and the
\* requests form one sequence, one per lookup made.
C13_PacedRequests ==
    /\ Cardinality(Requests) = Len(lookups) + Len(loc_lookups)
    /\ \A i \in Requests :
          (\E j \in Requests : j < i) => (i > 1 /\ calls[i - 1] = "sleep")

\* A start refinement, a second point and a section refinement, every request
\* after the first behind its sleep.
C13_Witness ==
    calls = <<"reverse_geocode", "sleep", "reverse_geocode_locality",
              "sleep", "reverse_geocode", "sleep", "reverse_geocode_locality">>

(***************************************************************************)
(* Refinement lookups that fail.                                           *)
(***************************************************************************)
\* The step made one refinement lookup, and it raised.
RefinementFailed ==
    /\ PrimaryAnswered
    /\ Len(loc_lookups') = Len(loc_lookups) + 1
    /\ ~loc_lookups'[Len(loc_lookups')].ok

\* C14: a refinement lookup that fails (for the start or for a section
\* marker) is absorbed: no note line is appended, the run goes on, and the
\* step ends as if the refinement had answered an empty address: the section
\* marker, or the last-known locality and district at the start, carry the
\* fine lookup's locality and district, and the section boundary advances.
C14_RefinementFailureAbsorbed ==
    [][RefinementFailed =>
        /\ ~Emitted("note")
        /\ pc' = "loop"
        /\ IF idx = 0
           THEN /\ last_locality' = IF Truthy(locality') THEN locality' ELSE None
                /\ last_ortsteil' = IF Truthy(ortsteil') THEN ortsteil' ELSE None
                /\ lines' = <<[type |-> "start",
                               road |-> IF Truthy(road') THEN road' ELSE None,
                               locality |-> last_locality',
                               ortsteil |-> last_ortsteil',
                               km |-> -1]>>
                /\ UNCHANGED next_section_m
           ELSE /\ Len(lines') > Len(lines)
                /\ lines'[Len(lines) + 1] =
                      [type |-> "section", road |-> None,
                       locality |-> IF Truthy(locality') THEN locality' ELSE None,
                       ortsteil |-> IF Truthy(ortsteil') THEN ortsteil' ELSE None,
                       km |-> next_section_m.m \div 1000]
                /\ next_section_m' = Boundary(next_section_m.m + section_m)]_vars

\* The section refinement of the second point raised: the marker shows the
\* fine lookup's locality and the boundary moved on.
C14_Witness ==
    /\ idx = 2 /\ ~include_start_goal
    /\ Len(loc_lookups) = 1 /\ ~loc_lookups[1].ok
    /\ Truthy(locality)
    /\ \E k \in 1..Len(lines) :
          lines[k].type = "section" /\ lines[k].locality = locality
    /\ next_section_m = Boundary(2 * section_m)

(***************************************************************************)
(* Properties of FieldSummary.                                             *)
(***************************************************************************)
ObservedNumbers == SelectSeq(observed, LAMBDA v : v.num)

ObservedTexts == {observed[i].s : i \in {j \in 1..Len(observed) : ~observed[j].num}}

\* C15: with no number observed and at least one other value captured,
\* format_value renders the captured distinct values joined by commas, and
\* appends the ellipsis exactly when more distinct values were observed than
\* the capped set captured; one string observed several times renders
\* without the ellipsis.
C15_EllipsisWhenTruncated ==
    (pc = "done" /\ ObservedNumbers = <<>> /\ ObservedTexts # {}) =>
        /\ rendered.kind = "text"
        /\ rendered.values = Sorted(summary.unique_values.v)
        /\ rendered.ellipsis <=>
              Cardinality(ObservedTexts) > Cardinality(summary.unique_values.v)

RECURSIVE SumOf(_)
SumOf(ns) == IF ns = <<>> THEN 0 ELSE ns[1].n + SumOf(Tail(ns))

\* C16: when exactly one of the observed values is a number, wherever it
\* stands among the others, format_value renders that number followed by the
\* unit, if any, and no min/max/avg; with two or more numbers it renders the
\* minimum, the maximum and the average of the numbers alone.
C16_NumericRendering ==
    pc = "done" =>
        LET ns == ObservedNumbers
        IN  /\ Len(ns) = 1 =>
                  /\ rendered.kind = "text"
                  /\ rendered.values = <<ToString(ns[1].n)>>
                  /\ rendered.unit = IF Truthy(unit_in) THEN unit_in ELSE None
                  /\ ~rendered.ellipsis
            /\ Len(ns) >= 2 =>
                  /\ rendered.kind = "stats"
                  /\ \A i \in 1..Len(ns) : rendered.min <= ns[i].n
                  /\ \E i \in 1..Len(ns) : rendered.min = ns[i].n
                  /\ \A i \in 1..Len(ns) : rendered.max >= ns[i].n
                  /\ \E i \in 1..Len(ns) : rendered.max = ns[i].n
                  /\ rendered.total = SumOf(ns) /\ rendered.n = Len(ns)
                  /\ rendered.unit = IF Truthy(unit_in) THEN unit_in ELSE None

(***************************************************************************)
(* Properties of the FIT summary.                                          *)
(***************************************************************************)
\* The record temperatures of the file, in file order.
FileRecordTemps ==
    LET recs == SelectSeq(messages, LAMBDA m : m.name = "record"
                                               /\ m.fields["temperature"].some)
    IN  [i \in 1..Len(recs) |-> recs[i].fields["temperature"].v]

\* The value the last session message that carries field f gives it.
LastSession(f) ==
    LET S == {i \in 1..Len(messages) :
                 messages[i].name = "session" /\ messages[i].fields[f].some}
    IN  IF S = {} THEN Dash
        ELSE Part(messages[CHOOSE i \in S : \A j \in S : j <= i].fields[f].v, 1)

\* C17: the temperature headline is built from the record messages'
\* temperature when there is one, and else from the session's min / max /
\* avg temperature: a file without record temperature whose session message
\* carries one of them has a temperature_min_max_avg headline built from the
\* session values.
C17_SessionTemperatureFallback ==
    pc = "done" =>
        LET headline == summary_data.temperature_min_max_avg
            temps == FileRecordTemps
        IN  /\ temps # <<>> =>
                  /\ headline.some
                  /\ headline.min = Part(MinOf(temps), 1)
                  /\ headline.max = Part(MaxOf(temps), 1)
                  /\ headline.avg = Part(Sum(temps), Len(temps))
            /\ (/\ temps = <<>>
                /\ \E f \in {"min_temperature", "max_temperature",
                             "avg_temperature"} : LastSession(f).some) =>
                  /\ headline.some
                  /\ headline.min = LastSession("min_temperature")
                  /\ headline.max = LastSession("max_temperature")
                  /\ headline.avg = LastSession("avg_temperature")

(***************************************************************************)
(* One downsample pass.                                                    *)
(***************************************************************************)
\* sampled is the result of a pass over points with the threshold min_dist.
PassDone == pc \in {"while", "done"}

Far(a, b) == DistGE(haversine_m(a, b), min_dist)

\* The largest index of K below j.
Before(K, j) == CHOOSE k \in K : k < j /\ \A m \in K : m < j => m <= k

\* The indices a greedy scan keeps: the first, and every later one that is
\* at least the threshold away from the one kept most recently before it.
IsGreedy(K) ==
    /\ 1 \in K
    /\ \A j \in 2..Len(points) :
          j \in K <=> Far(points[Before(K, j)], points[j])

\* The points of the indices K, in track order.
RECURSIVE PointsAt(_, _)
PointsAt(K, i) ==
    IF i > Len(points) THEN <<>>
    ELSE IF i \in K THEN <<points[i]>> \o PointsAt(K, i + 1)
    ELSE PointsAt(K, i + 1)

\* C18: one pass keeps the first point and then each point exactly when it
\* is at least the threshold away from the most recently kept one; only a
\* force-appended final point may be closer than the threshold to its
\* predecessor in the output; three collinear equally spaced points A, B, C
\* with dist(A,B) < threshold <= dist(A,C) give exactly [A, C]; and every
\* pass of sample_points applies the current threshold to the original track.
C18_GreedyPass ==
    PassDone =>
        /\ \E K \in SUBSET (1..Len(points)) :
              /\ IsGreedy(K)
              /\ LET kept == PointsAt(K, 1)
                     forced == kept[Len(kept)] # points[Len(points)]
                 IN  /\ sampled = IF forced
                                  THEN Append(kept, points[Len(points)])
                                  ELSE kept
                     /\ \A i \in 2..Len(sampled) :
                           ~Far(sampled[i - 1], sampled[i]) =>
                               (forced /\ i = Len(sampled))
        /\ (/\ Len(points) = 3
            /\ points[2].lat - points[1].lat = points[3].lat - points[2].lat
            /\ ~Far(points[1], points[2])
            /\ Far(points[1], points[3])) =>
              sampled = <<points[1], points[3]>>

\* A pass with a grown threshold over the original four points: the second
\* is too close to the first, the third is kept, the fourth is too close to
\* the third and is force-appended.
C18_Witness ==
    /\ pc = "while"
    /\ points = <<Point(0), Point(1), Point(2), Point(1)>>
    /\ min_dist.k = 8 /\ ~min_dist.inf
    /\ sampled = <<Point(0), Point(2), Point(1)>>

(***************************************************************************)
(* Road changes and the start of the narrative.                            *)
(***************************************************************************)
RoadLines == SelectSeq(lines, LAMBDA l : l.type = "road")

\* C19: no two consecutive road change lines name the same road, and after
\* a Start line that carries a road the first road change line names
\* another road, whatever lies between them (notes of failed lookups, points
\* without a road, section markers); the road of the latest road change line
\* is the last-known road.
C19_RoadChangesDeduplicated ==
    /\ \A i \in 1..(Len(RoadLines) - 1) :
          RoadLines[i].road # RoadLines[i + 1].road
    /\ (/\ lines # <<>> /\ lines[1].type = "start" /\ lines[1].road # None
        /\ RoadLines # <<>>) =>
          RoadLines[1].road # lines[1].road
    /\ RoadLines # <<>> => RoadLines[Len(RoadLines)].road = last_road

\* Start on road A, a failed lookup, then road B: Start, note, Road change B.
C19_Witness ==
    /\ Len(lines) = 3
    /\ lines[1].type = "start" /\ lines[1].road = "A"
    /\ lines[2].type = "note"
    /\ lines[3].type = "road" /\ lines[3].road = "B"

\* No lookup before this step's answered with a road.
NoRoadYet ==
    \A j \in 1..Len(lookups) :
        ~(lookups[j].ok /\ Truthy(pick_road(lookups[j].address)))

\* C20: a Start line is emitted exactly when start/finish is enabled and the
\* primary lookup of point 0 succeeds, and it is then the first line; the
\* last-known road, locality and district are unset until a lookup succeeds;
\* so when the lookup of point 0 fails the narrative begins with a note
\* line, has no Start line, and the first later point that yields a road
\* emits a road change line.
C20_StartOnlyAtAnsweredFirstPoint ==
    /\ [](/\ Count("start") =
                IF Len(lookups) >= 1 /\ include_start_goal /\ lookups[1].ok
                THEN 1 ELSE 0
          /\ Count("start") = 1 => lines[1].type = "start"
          /\ AllLookupsFailed =>
                (last_road = None /\ last_locality = None
                                  /\ last_ortsteil = None)
          /\ (Len(lookups) >= 1 /\ ~lookups[1].ok) => lines[1].type = "note")
    /\ [][(/\ PrimaryAnswered /\ idx > 0 /\ ~lookups[1].ok
           /\ NoRoadYet /\ Truthy(road')) =>
              /\ lines'[Len(lines')].type = "road"
              /\ lines'[Len(lines')].road = road'
              /\ Len(lines') > Len(lines)]_vars

\* The lookup of point 0 failed and the second point answered with a road:
\* a note, then a road change, and no Start although start/finish is on.
C20_Witness ==
    /\ include_start_goal
    /\ Len(lookups) = 2 /\ ~lookups[1].ok /\ lookups[2].ok
    /\ Types(lines) = <<"note", "road">>

(***************************************************************************)
(* Section markers along a run.                                            *)
(***************************************************************************)
SectionLines == SelectSeq(lines, LAMBDA l : l.type = "section")

\* Each step emits at most one section marker, none at point 0 and none at
\* a point whose lookup failed, and a boundary already behind the cumulative
\* distance gives the next answered point its marker.
OneMarkerPerAnsweredPoint ==
    [][Iterated =>
        /\ Cardinality({k \in NewLines : lines'[k].type = "section"}) <= 1
        /\ Emitted("section") => (idx > 0 /\ PrimaryAnswered)
        /\ (/\ PrimaryAnswered /\ idx > 0
            /\ next_section_m.fin /\ next_section_m.m <= cumulative_m) =>
              Emitted("section")]_vars

\* The k-th section marker is labelled floor(k * section length / 1000).
LabelledByCount ==
    \A k \in 1..Len(SectionLines) :
        SectionLines[k].km = (k * section_m) \div 1000

\* C21 as claimed: at most one marker per point, none at point 0 or at a
\* failed point; the k-th marker is labelled floor(k * section_length /
\* 1000), so the km labels are strictly increasing, also when one step
\* crosses several boundaries.
C21_AsClaimed ==
    /\ [](/\ LabelledByCount
          /\ \A k \in 1..(Len(SectionLines) - 1) :
                SectionLines[k].km < SectionLines[k + 1].km)
    /\ OneMarkerPerAnsweredPoint

\* C21: at most one marker per point, none at point 0 or at a failed point;
\* the k-th marker is labelled floor(k * section_length / 1000); the labels
\* never decrease, and they strictly increase when the section length is at
\* least 1000 m; a boundary left behind by a step that crossed several is
\* emitted at the next answered point, or not at all when the track ends.
C21_SectionMarkers ==
    /\ [](/\ LabelledByCount
          /\ \A k \in 1..(Len(SectionLines) - 1) :
                /\ SectionLines[k].km <= SectionLines[k + 1].km
                /\ section_m >= 1000 =>
                      SectionLines[k].km < SectionLines[k + 1].km)
    /\ OneMarkerPerAnsweredPoint

\* Sections of 250 m on a 2 km track of three points: each step crossed four
\* boundaries, the two markers are both "from km 0", and the boundary stays
\* behind at 750 m when the track ends.
C21_Witness ==
    /\ pc = "done" /\ section_m = 250 /\ cumulative_m = 2000
    /\ Len(SectionLines) = 2
    /\ SectionLines[1].km = 0 /\ SectionLines[2].km = 0
    /\ next_section_m = Boundary(750)

====
